---- MODULE Spec2Model ----
(***************************************************************************)
(* Model of page_reorder_app.py: the four helper functions (find_summary_  *)
(* page, get_page_thumbnail, reorder_pdf, move_page_to_front), the         *)
(* "Apply Custom Order" handler and the Streamlit script that is re-run on *)
(* every user interaction.                                                 *)
(*                                                                         *)
(* A PDF byte buffer is a record [id, pages]: id is the identity of the    *)
(* Python bytes object, pages the sequence of page contents it encodes.    *)
(* A page content is an index into PageTexts (the text get_text() would    *)
(* extract from it).  Page numbers are 0-based as in the code; TLA+        *)
(* sequences are 1-based, so page i of a document is pages[i + 1].         *)
(***************************************************************************)
EXTENDS Integers, Sequences, FiniteSets, TLC

VARIABLES uploaded_file, session_state, view,
          pdf_bytes, call, ret,
          new_order_input, applied

vars == <<uploaded_file, session_state, view, pdf_bytes, call, ret,
          new_order_input, applied>>

\* ------------------------------------------------------------------ bounds
MaxPages == 4
MaxUploadPages == 3
MaxOrderLen == 2
MaxInputLen == 5

\* ------------------------------------------------------------- page texts
PageTexts ==
  << <<"U","n","i","t"," ","S","u","m","m","a","r","y">>,
     <<"I","n","v","o","i","c","e">>,
     <<"A"," ","S","U","M","M","A","R","Y">>,
     <<"s","u","m"," ","m","a","r","y">> >>

PageContents == DOMAIN PageTexts

\* Python's None and an optional value: the empty and the one-element tuple.
None == <<>>
Some(x) == <<x>>

UpperCase == <<"A","B","C","D","E","F","G","H","I","J","K","L","M",
               "N","O","P","Q","R","S","T","U","V","W","X","Y","Z">>
LowerCase == <<"a","b","c","d","e","f","g","h","i","j","k","l","m",
               "n","o","p","q","r","s","t","u","v","w","x","y","z">>

\* str.lower(), character by character.
lower(text) ==
  [k \in DOMAIN text |->
     IF \E u \in DOMAIN UpperCase : UpperCase[u] = text[k]
     THEN LowerCase[CHOOSE u \in DOMAIN UpperCase : UpperCase[u] = text[k]]
     ELSE text[k]]

\* Python's `pat in text` for strings.
Contains(text, pat) ==
  \E s \in 0..(Len(text) - Len(pat)) : SubSeq(text, s + 1, s + Len(pat)) = pat

UnitSummaryMarker == <<"u","n","i","t"," ","s","u","m","m","a","r","y">>
SummaryMarker == <<"s","u","m","m","a","r","y">>

\* -------------------------------------------------------- PyMuPDF handles
\* fitz.open(stream=pdf_bytes, filetype="pdf")
fitz_open(bytes) ==
  [stream |-> bytes.id, pages |-> bytes.pages, is_closed |-> FALSE]

\* fitz.open(): a new empty PDF
fitz_open_new == [stream |-> 0, pages |-> <<>>, is_closed |-> FALSE]

\* doc.close()
close(doc) == [doc EXCEPT !.is_closed = TRUE]

\* page.get_text()
get_text(page) == PageTexts[page]

\* Document.__contains__ / __getitem__: an int index is accepted when it is
\* below the page count; negative indices count from the end.
InDocument(doc, i) == i < Len(doc.pages)

load_page(doc, i) == doc.pages[(i % Len(doc.pages)) + 1]

Min2(a, b) == IF a < b THEN a ELSE b
Max2(a, b) == IF a > b THEN a ELSE b

\* insert_pdf reading its page numbers as 1-based.
insert_pdf_one_based(target, src, from_page, to_page) ==
  LET srcCount == Len(src.pages)
      fp == Min2(Max2(from_page - 1, 0), srcCount - 1)
      tp == Min2(Max2(to_page - 1, 0), srcCount - 1)
  IN [target EXCEPT !.pages = @ \o SubSeq(src.pages, fp + 1, tp + 1)]

\* new_doc.insert_pdf(doc, from_page=f, to_page=t): the page numbers are
\* normalised (never rejected), then pages fp..tp are appended.
insert_pdf(target, src, from_page, to_page) ==
  LET srcCount == Len(src.pages)
      fp == Min2(Max2(from_page, 0), srcCount - 1)
      tp == Min2(IF to_page < 0 THEN srcCount - 1 ELSE to_page, srcCount - 1)
      copied == IF fp <= tp
                THEN SubSeq(src.pages, fp + 1, tp + 1)
                ELSE [k \in 1..(fp - tp + 1) |-> src.pages[fp + 2 - k]]
  IN [target EXCEPT !.pages = @ \o copied]

\* Identity of a bytes object that is not one of `live`.
FreshId(live) == CHOOSE n \in 1..(Cardinality(live) + 1) : n \notin live

Return(v, hs) == [kind |-> "return", value |-> v, handles |-> hs]
Raise(e, hs) == [kind |-> "raise", value |-> e, handles |-> hs]

\* ------------------------------------------------------ find_summary_page
IsSummaryText(text) ==
  Contains(text, UnitSummaryMarker) \/ Contains(lower(text), SummaryMarker)

\* The scan without its early return: the last matching page wins.
RECURSIVE ScanPagesLast(_, _)
ScanPagesLast(doc, page_num) ==
  IF page_num >= Len(doc.pages)
  THEN Return(None, <<close(doc)>>)
  ELSE LET rest == ScanPagesLast(doc, page_num + 1)
       IN IF rest.value # None
          THEN rest
          ELSE IF IsSummaryText(lower(get_text(load_page(doc, page_num))))
          THEN Return(Some(page_num), <<close(doc)>>)
          ELSE rest

RECURSIVE ScanPages(_, _)
ScanPages(doc, page_num) ==
  IF page_num >= Len(doc.pages)
  THEN Return(None, <<close(doc)>>)
  ELSE LET text == lower(get_text(load_page(doc, page_num)))
       IN IF IsSummaryText(text)
          THEN Return(Some(page_num), <<close(doc)>>)
          ELSE ScanPages(doc, page_num + 1)

find_summary_page(bytes) == ScanPages(fitz_open(bytes), 0)

\* ----------------------------------------------------- get_page_thumbnail
get_page_thumbnail(bytes, page_num, width) ==
  LET doc == fitz_open(bytes)
  IN IF ~InDocument(doc, page_num)
     THEN Raise("IndexError", <<doc>>)
     ELSE Return([page |-> load_page(doc, page_num), width |-> width],
                 <<close(doc)>>)

\* ------------------------------------------------------------ reorder_pdf
\* The loop inserting every page at the front (start_at=0) of new_doc.
RECURSIVE InsertAllAtFront(_, _, _, _)
InsertAllAtFront(new_doc, doc, new_order, k) ==
  IF k > Len(new_order)
  THEN new_doc
  ELSE LET rest == InsertAllAtFront(new_doc, doc, new_order, k + 1)
       IN insert_pdf(rest, doc, new_order[k], new_order[k])

RECURSIVE InsertAll(_, _, _, _)
InsertAll(new_doc, doc, new_order, k) ==
  IF k > Len(new_order)
  THEN new_doc
  ELSE InsertAll(insert_pdf(new_doc, doc, new_order[k], new_order[k]),
                 doc, new_order, k + 1)

\* The reordering done on the opened source document itself, its buffer
\* handed back.
reorder_pdf_in_place(bytes, new_order) ==
  LET doc == fitz_open(bytes)
      selected == InsertAll([doc EXCEPT !.pages = <<>>], doc, new_order, 1)
  IN IF Len(selected.pages) = 0
     THEN Raise("ValueError", <<selected>>)
     ELSE Return([id |-> bytes.id, pages |-> selected.pages],
                 <<close(selected)>>)

reorder_pdf(bytes, new_order) ==
  LET doc == fitz_open(bytes)
      new_doc == InsertAll(fitz_open_new, doc, new_order, 1)
  IN IF Len(new_doc.pages) = 0
     THEN Raise("ValueError", <<doc, new_doc>>)
     ELSE Return([id |-> FreshId({bytes.id}), pages |-> new_doc.pages],
                 <<close(doc), close(new_doc)>>)

\* ----------------------------------------------------- move_page_to_front
\* The list of the other pages without its `if i != page_num` filter.
RECURSIVE EveryPage(_, _, _)
EveryPage(total_pages, page_num, i) ==
  IF i >= total_pages
  THEN <<>>
  ELSE <<i>> \o EveryPage(total_pages, page_num, i + 1)

RECURSIVE OtherPages(_, _, _)
OtherPages(total_pages, page_num, i) ==
  IF i >= total_pages
  THEN <<>>
  ELSE (IF i # page_num THEN <<i>> ELSE <<>>)
       \o OtherPages(total_pages, page_num, i + 1)

move_page_to_front(bytes, page_num) ==
  LET doc == fitz_open(bytes)
      total_pages == Len(doc.pages)
      new_order == <<page_num>> \o OtherPages(total_pages, page_num, 0)
      r == reorder_pdf(bytes, new_order)
  IN [r EXCEPT !.handles = <<close(doc)>> \o @]

\* ------------------------------------------- "Apply Custom Order" handler
Whitespace == {" ", "\t"}
Digits == <<"0","1","2","3","4","5","6","7","8","9">>

IsDigit(c) == \E d \in DOMAIN Digits : Digits[d] = c
DigitValue(c) == (CHOOSE d \in DOMAIN Digits : Digits[d] = c) - 1

\* str.split(","): the pieces between commas, empty pieces kept.
RECURSIVE split(_)
split(s) ==
  IF \A k \in DOMAIN s : s[k] # ","
  THEN <<s>>
  ELSE LET c == CHOOSE k \in DOMAIN s :
                   s[k] = "," /\ \A j \in 1..(k - 1) : s[j] # ","
       IN <<SubSeq(s, 1, c - 1)>> \o split(SubSeq(s, c + 1, Len(s)))

\* str.strip(): leading and trailing whitespace removed.
RECURSIVE strip(_)
strip(s) ==
  IF s = <<>> THEN s
  ELSE IF s[1] \in Whitespace THEN strip(Tail(s))
  ELSE IF s[Len(s)] \in Whitespace THEN strip(SubSeq(s, 1, Len(s) - 1))
  ELSE s

\* The literals int() accepts: an optional sign, then one or more digits.
\* Any other string makes int() raise ValueError.
Unsigned(s) == IF s # <<>> /\ s[1] \in {"+", "-"} THEN Tail(s) ELSE s

IsIntLiteral(s) ==
  /\ Unsigned(s) # <<>>
  /\ \A k \in DOMAIN Unsigned(s) : IsDigit(Unsigned(s)[k])

RECURSIVE DecimalValue(_)
DecimalValue(ds) ==
  IF ds = <<>> THEN 0
  ELSE 10 * DecimalValue(SubSeq(ds, 1, Len(ds) - 1)) + DigitValue(ds[Len(ds)])

int(s) ==
  IF s[1] = "-" THEN 0 - DecimalValue(Unsigned(s)) ELSE DecimalValue(Unsigned(s))

Range(f) == {f[k] : k \in DOMAIN f}


\* Lines 157-176.  The result carries the session state after the handler,
\* the message shown, the arguments of every reorder_pdf call made and the
\* handles those calls leave behind.
Handled(session, message, calls, hs) ==
  [session |-> session, message |-> message, reorder_calls |-> calls,
   handles |-> hs]

\* The validation accepting any order whose entries are page numbers.
ValidateSubset(new_order, total_pages) ==
  IF Len(new_order) # total_pages THEN "WrongLength"
  ELSE IF ~(Range(new_order) \subseteq 0..(total_pages - 1))
  THEN "InvalidOrDuplicates"
  ELSE "Valid"

\* The validation with its two checks in the other order.
ValidateSetFirst(new_order, total_pages) ==
  IF Range(new_order) # 0..(total_pages - 1) THEN "InvalidOrDuplicates"
  ELSE IF Len(new_order) # total_pages THEN "WrongLength"
  ELSE "Valid"

\* Lines 163-167: the if / elif / else over the parsed order.
Validate(new_order, total_pages) ==
  IF Len(new_order) # total_pages THEN "WrongLength"
  ELSE IF Range(new_order) # 0..(total_pages - 1) THEN "InvalidOrDuplicates"
  ELSE "Valid"

ApplyCustomOrder(bytes, total_pages, input, session) ==
  LET tokens == split(input)
      stripped == [k \in DOMAIN tokens |-> strip(tokens[k])]
  IN IF \E k \in DOMAIN stripped : ~IsIntLiteral(stripped[k])
     THEN Handled(session, "InvalidInput", <<>>, <<>>)
     ELSE LET new_order == [k \in DOMAIN stripped |-> int(stripped[k]) - 1]
              verdict == Validate(new_order, total_pages)
          IN IF verdict # "Valid"
             THEN Handled(session, verdict, <<>>, <<>>)
             ELSE LET r == reorder_pdf(bytes, new_order)
                  IN IF r.kind = "raise"
                     THEN Handled(session, "InvalidInput", <<new_order>>,
                                  r.handles)
                     ELSE Handled([reordered_pdf |-> Some(r.value)], "Reordered",
                                  <<new_order>>, r.handles)

\* ------------------------------------------------- the script, lines 93-202
NoClick == [button |-> "none", text |-> <<>>]
MoveClick == [button |-> "move", text |-> <<>>]
ApplyClick(text) == [button |-> "apply", text |-> text]

PreviewPages == 3
ThumbWidth == 150
PreviewWidth == 200

\* The value of the one-element set S: {F(x) : x \in {e}} evaluates e once
\* and names its value x, as an assignment to a local variable does.
Only(S) == CHOOSE x \in S : TRUE

\* for i in range(count): get_page_thumbnail(bytes, i, width) -- the calls
\* in order, each with its result; the first call that raises ends the loop.
RECURSIVE Thumbnails(_, _, _, _)
Thumbnails(bytes, i, count, width) ==
  IF i >= count
  THEN <<>>
  ELSE Only({
         <<[page_count |-> Len(bytes.pages), page_num |-> i, result |-> t]>>
           \o (IF t.kind = "raise"
               THEN <<>>
               ELSE Thumbnails(bytes, i + 1, count, width)) :
         t \in {get_page_thumbnail(bytes, i, width)}})

HandlesOf(calls) == [k \in DOMAIN calls |-> calls[k].result.handles[1]]

Raised(calls) == \E k \in DOMAIN calls : calls[k].result.kind = "raise"

\* Lines 178-200: the download section and the preview of the stored document.
Preview(total_pages, summary_page, current, handled, hs) ==
  Only({
    [session |-> handled.session,
     view |-> [message |-> handled.message,
               summary_page |-> summary_page,
               thumbnail_calls |-> current \o preview,
               exception |-> IF Raised(preview) THEN "IndexError" ELSE "none",
               handles |-> hs \o HandlesOf(current) \o handled.handles
                              \o HandlesOf(preview)]] :
    preview \in {IF handled.session.reordered_pdf # None
                 THEN Thumbnails(handled.session.reordered_pdf[1], 0,
                                 Min2(PreviewPages, total_pages), PreviewWidth)
                 ELSE <<>>}})

\* Lines 133-176: the thumbnails of the uploaded file, then the order field
\* and its button.
ManualReorder(bytes, total_pages, summary_page, s1, message, click, hs) ==
  Only({
    Preview(total_pages, summary_page, pair[1], pair[2], hs) :
    pair \in {<<Thumbnails(bytes, 0, total_pages, ThumbWidth),
                IF click.button = "apply"
                THEN ApplyCustomOrder(bytes, total_pages, click.text, s1)
                ELSE Handled(s1, message, <<>>, <<>>)>>}})

\* Lines 113-131: the summary page and the "Move Summary to Front" button.
MoveSummary(bytes, total_pages, found, session, click, hs) ==
  IF found.value # None /\ click.button = "move"
  THEN Only({
         ManualReorder(bytes, total_pages, found.value,
                       [reordered_pdf |-> Some(moved.value)], "Moved", click,
                       hs \o found.handles \o moved.handles) :
         moved \in {move_page_to_front(bytes, found.value[1])}})
  ELSE ManualReorder(bytes, total_pages, found.value, session, "none", click,
                     hs \o found.handles)

\* One run of the script with `file` in the uploader, `session` the session
\* state left by earlier runs and `click` the button pressed, with the text
\* of the order field.  The filename kept in the session state only names
\* the download and is left out.
RunScript(file, session, click) ==
  IF file = None
  THEN [session |-> session,
        view |-> [message |-> "UploadToStart", summary_page |-> None,
                  thumbnail_calls |-> <<>>, exception |-> "none",
                  handles |-> <<>>]]
  ELSE Only({
         MoveSummary(bytes, Len(opened[1].pages), opened[2], session, click,
                     <<close(opened[1])>>) :
         bytes \in {file[1]},
         opened \in {<<fitz_open(file[1]), find_summary_page(file[1])>>}})

\* ------------------------------------------------------------ input sets
\* The sequences of at most n elements of S.
SeqsUpTo(S, n) == UNION {[1..k -> S] : k \in 0..n}

\* The documents: every sequence of 1..MaxPages page contents.
Documents == SeqsUpTo(PageContents, MaxPages) \ {<<>>}

\* The files offered to the uploader: documents of summary and invoice pages.
UploadContents == {1, 2}
Uploads == {[id |-> 1, pages |-> d] :
              d \in SeqsUpTo(UploadContents, MaxUploadPages) \ {<<>>}}

PagePermutations(n) ==
  {p \in [1..n -> 0..(n - 1)] : Range(p) = 0..(n - 1)}

\* The page orders handed to reorder_pdf: every permutation of the document's
\* pages, and every short sequence over the indices -1 .. n.
Orders(n) == PagePermutations(n) \cup SeqsUpTo((0 - 1)..n, MaxOrderLen)

\* str(i): decimal digits of a number 1..9
str(i) == <<Digits[i + 1]>>

\* ",".join(str(p + 1) for p in order)
RECURSIVE join(_)
join(order) ==
  IF Len(order) = 0 THEN <<>>
  ELSE IF Len(order) = 1 THEN str(order[1] + 1)
  ELSE str(order[1] + 1) \o <<",">> \o join(Tail(order))

InputAlphabet == {"1", "2", "3", ",", " ", "x", "-"}

\* Every text of at most MaxInputLen characters the user can type.
Inputs == SeqsUpTo(InputAlphabet, MaxInputLen)

\* The texts typed in a session: every permutation of the page numbers and
\* a few texts the handler rejects.
TypedInputs(n) ==
  {join(p) : p \in PagePermutations(n)}
    \cup {<<"1">>, <<"1", ",", "1">>, <<"x">>, <<>>, <<"2", ",", " ", "1">>}

\* ===================================================== the session (Spec)
NoCall == [op |-> "none"]
NoRet == [kind |-> "none"]
NotApplied == [done |-> FALSE]

Run(file, click) ==
  \E r \in {RunScript(file, session_state, click)} :
    /\ uploaded_file' = file
    /\ session_state' = r.session
    /\ view' = r.view
    /\ UNCHANGED <<pdf_bytes, call, ret, new_order_input, applied>>

Init ==
  /\ uploaded_file = None
  /\ session_state = [reordered_pdf |-> None]
  /\ view = RunScript(None, [reordered_pdf |-> None], NoClick).view
  /\ pdf_bytes = None
  /\ call = NoCall
  /\ ret = NoRet
  /\ new_order_input = <<>>
  /\ applied = NotApplied

\* The user puts a file into the uploader (or replaces the one there).
Upload ==
  \E f \in Uploads : Run(Some(f), NoClick)

\* The user clears the uploader.
RemoveFile ==
  /\ uploaded_file # None
  /\ Run(None, NoClick)

\* "Move Summary to Front": the button exists when a summary page was found.
MoveSummaryToFront ==
  /\ uploaded_file # None
  /\ view.summary_page # None
  /\ Run(uploaded_file, MoveClick)

\* "Apply Custom Order" with a text in the order field.
ApplyOrder ==
  /\ uploaded_file # None
  /\ \E text \in TypedInputs(Len(uploaded_file[1].pages)) :
        Run(uploaded_file, ApplyClick(text))

Next == Upload \/ RemoveFile \/ MoveSummaryToFront \/ ApplyOrder

Spec == Init /\ [][Next]_vars

\* ========================================= the helper functions (SpecFn)
InitFn ==
  /\ pdf_bytes \in {[id |-> 1, pages |-> d] : d \in Documents}
  /\ call = NoCall
  /\ ret = NoRet
  /\ uploaded_file = None
  /\ session_state = [reordered_pdf |-> None]
  /\ view = RunScript(None, [reordered_pdf |-> None], NoClick).view
  /\ new_order_input = <<>>
  /\ applied = NotApplied

Called(op, arg, r) ==
  /\ call' = [op |-> op, bytes |-> pdf_bytes, arg |-> arg]
  /\ ret' = r
  /\ UNCHANGED <<pdf_bytes, uploaded_file, session_state, view,
                 new_order_input, applied>>

\* The page numbers tried: every page of the document and one on each side.
PageNumbers == (0 - 1)..Len(pdf_bytes.pages)

CallFindSummaryPage ==
  /\ call = NoCall
  /\ Called("find_summary_page", None, find_summary_page(pdf_bytes))

CallGetPageThumbnail ==
  /\ call = NoCall
  /\ \E i \in PageNumbers :
       Called("get_page_thumbnail", i,
              get_page_thumbnail(pdf_bytes, i, ThumbWidth))

CallReorderPdf ==
  /\ call = NoCall
  /\ \E o \in Orders(Len(pdf_bytes.pages)) :
       Called("reorder_pdf", o, reorder_pdf(pdf_bytes, o))

CallMovePageToFront ==
  /\ call = NoCall
  /\ \E i \in PageNumbers :
       Called("move_page_to_front", i, move_page_to_front(pdf_bytes, i))

NextFn ==
  \/ CallFindSummaryPage
  \/ CallGetPageThumbnail
  \/ CallReorderPdf
  \/ CallMovePageToFront

SpecFn == InitFn /\ [][NextFn]_vars

\* ================================= the order field's handler (SpecApply)
\* One document of each page count, and a reordered document of an earlier
\* run in the session state or none.
ApplyDocuments ==
  {[id |-> 1, pages |-> [k \in 1..n |-> ((k - 1) % Len(PageTexts)) + 1]] :
     n \in 1..MaxUploadPages}

StoredDocument == [id |-> 2, pages |-> <<2, 1>>]

InitApply ==
  /\ pdf_bytes \in ApplyDocuments
  /\ session_state \in {[reordered_pdf |-> None],
                        [reordered_pdf |-> Some(StoredDocument)]}
  /\ new_order_input \in Inputs
  /\ applied = NotApplied
  /\ call = NoCall
  /\ ret = NoRet
  /\ uploaded_file = None
  /\ view = RunScript(None, [reordered_pdf |-> None], NoClick).view

Apply ==
  /\ ~applied.done
  /\ LET h == ApplyCustomOrder(pdf_bytes, Len(pdf_bytes.pages),
                               new_order_input, session_state)
     IN /\ session_state' = h.session
        /\ applied' = [done |-> TRUE, message |-> h.message,
                       reorder_calls |-> h.reorder_calls,
                       handles |-> h.handles, before |-> session_state]
  /\ UNCHANGED <<pdf_bytes, new_order_input, call, ret, uploaded_file, view>>

NextApply == Apply

SpecApply == InitApply /\ [][NextApply]_vars

\* ============================================================ properties
PageCount == Len(pdf_bytes.pages)
ValidPages == 0..(PageCount - 1)
Identity == [k \in 1..PageCount |-> k - 1]
IsBijection(order) ==
  /\ Len(order) = PageCount
  /\ \A k \in DOMAIN order : order[k] \in ValidPages
  /\ \A j, k \in DOMAIN order : j # k => order[j] # order[k]

\* C1: reorder_pdf with a bijection P over the page indices returns a document
\* of len(P) pages whose page k is source page P[k].
C1_ReorderPlacesPages ==
  (call.op = "reorder_pdf" /\ IsBijection(call.arg)) =>
    /\ ret.kind = "return"
    /\ Len(ret.value.pages) = Len(call.arg)
    /\ \A k \in DOMAIN call.arg :
         ret.value.pages[k] = pdf_bytes.pages[call.arg[k] + 1]

C1_Witness ==
  /\ call.op = "reorder_pdf"
  /\ pdf_bytes.pages = <<1, 2, 3>>
  /\ call.arg = <<2, 0, 1>>
  /\ ret.kind = "return"
  /\ ret.value.pages = <<3, 1, 2>>

\* C3: find_summary_page returns the lowest page index whose lowercased text
\* contains "unit summary" or "summary", and None exactly when no page does.
HasMarker(page) ==
  \/ Contains(lower(PageTexts[page]), UnitSummaryMarker)
  \/ Contains(lower(PageTexts[page]), SummaryMarker)

C3_FirstMarkerPage ==
  call.op = "find_summary_page" =>
    /\ ret.kind = "return"
    /\ (ret.value = None) <=> (\A i \in ValidPages : ~HasMarker(pdf_bytes.pages[i + 1]))
    /\ ret.value # None =>
         /\ ret.value[1] \in ValidPages
         /\ HasMarker(pdf_bytes.pages[ret.value[1] + 1])
         /\ \A i \in 0..(ret.value[1] - 1) : ~HasMarker(pdf_bytes.pages[i + 1])

C3_Witness ==
  /\ call.op = "find_summary_page"
  /\ pdf_bytes.pages = <<2, 4, 3, 1>>
  /\ ret.value = Some(2)

\* C4: move_page_to_front with a valid index i returns page i followed by the
\* remaining pages in their original order.
C4_MoveToFrontOrder ==
  (call.op = "move_page_to_front" /\ call.arg \in ValidPages) =>
    /\ ret.kind = "return"
    /\ ret.value.pages =
         <<pdf_bytes.pages[call.arg + 1]>>
           \o SubSeq(pdf_bytes.pages, 1, call.arg)
           \o SubSeq(pdf_bytes.pages, call.arg + 2, PageCount)

C4_Witness ==
  /\ call.op = "move_page_to_front"
  /\ pdf_bytes.pages = <<2, 4, 1, 3>>
  /\ call.arg = 2
  /\ ret.kind = "return"
  /\ ret.value.pages = <<1, 2, 4, 3>>

\* C5: reorder_pdf with an entry outside [0, page_count), and
\* move_page_to_front with an index outside it, signal
\* PageIndexOutOfRangeError and return no document.
C5_OutOfRangeSignalled ==
  (\/ call.op = "reorder_pdf" /\ \E k \in DOMAIN call.arg : call.arg[k] \notin ValidPages
   \/ call.op = "move_page_to_front" /\ call.arg \notin ValidPages) =>
    /\ ret.kind = "raise"
    /\ ret.value = "PageIndexOutOfRangeError"

\* C6: reorder_pdf with the identity permutation returns a document with the
\* pages of its input, and so does applying it to that result again.
C6_IdentityReorder ==
  (call.op = "reorder_pdf" /\ call.arg = Identity) =>
    /\ ret.kind = "return"
    /\ ret.value.pages = pdf_bytes.pages
    /\ reorder_pdf(ret.value, Identity).kind = "return"
    /\ reorder_pdf(ret.value, Identity).value.pages = pdf_bytes.pages

C6_Witness ==
  /\ call.op = "reorder_pdf"
  /\ pdf_bytes.pages = <<1, 2, 3, 4>>
  /\ call.arg = <<0, 1, 2, 3>>
  /\ ret.kind = "return"
  /\ ret.value.pages = <<1, 2, 3, 4>>

\* C7: every handle an operation opened is closed when it returns or raises.
C7_HandlesClosed ==
  call.op # "none" =>
    \A k \in DOMAIN ret.handles : ret.handles[k].is_closed

\* C8: reorder_pdf and move_page_to_front leave their input as it was, whether
\* they return or raise: the buffer is the one passed, the document opened
\* from it keeps its pages, and the buffer returned is another object.
C8_InputUnchanged ==
  call.op \in {"reorder_pdf", "move_page_to_front"} =>
    /\ pdf_bytes = call.bytes
    /\ \A k \in DOMAIN ret.handles :
         ret.handles[k].stream = pdf_bytes.id =>
           ret.handles[k].pages = pdf_bytes.pages
    /\ ret.kind = "return" => ret.value.id # pdf_bytes.id

C8_Witness ==
  /\ call.op = "move_page_to_front"
  /\ call.arg = 1
  /\ pdf_bytes.pages = <<2, 1>>
  /\ ret.kind = "return"
  /\ ret.value.pages = <<1, 2>>
  /\ \E k \in DOMAIN ret.handles : ret.handles[k].stream = pdf_bytes.id

\* The order field as the handler reads it: the stripped tokens, and their
\* values when every token is an integer.
Candidate == [k \in DOMAIN split(new_order_input) |->
                strip(split(new_order_input)[k])]
AllIntegers == \A k \in DOMAIN Candidate : IsIntLiteral(Candidate[k])
Entries == [k \in DOMAIN Candidate |-> int(Candidate[k])]
HasDuplicate == \E j, k \in DOMAIN Entries : j # k /\ Entries[j] = Entries[k]
HasOutOfRange == \E k \in DOMAIN Entries : Entries[k] \notin 1..PageCount
Accepted == applied.message = "Reordered"

\* C2: a candidate of integer tokens with a duplicate, an out-of-range entry
\* or a length other than page_count is rejected; it is accepted, yielding its
\* 0-based sequence, if and only if it is a permutation of 1..page_count.
C2_ValidationAcceptsPermutations ==
  (applied.done /\ AllIntegers) =>
    /\ (HasDuplicate \/ HasOutOfRange \/ Len(Entries) # PageCount) => ~Accepted
    /\ Accepted <=> (Len(Entries) = PageCount /\ ~HasDuplicate /\ ~HasOutOfRange)
    /\ Accepted => applied.reorder_calls =
                     <<[k \in DOMAIN Entries |-> Entries[k] - 1]>>

C2_Witness ==
  /\ applied.done
  /\ new_order_input = <<"3", ",", "1", ",", "2">>
  /\ PageCount = 3
  /\ Accepted
  /\ applied.reorder_calls = << <<2, 0, 1>> >>

\* C9: a rejected candidate gets one error: the parse error if a token is no
\* integer, else the wrong-length error if the count differs from page_count,
\* else the invalid-permutation error; reorder_pdf is not called and the
\* stored reordered document stays as it was.
C9_OneErrorPerRejection ==
  applied.done =>
    /\ applied.message =
         IF ~AllIntegers THEN "InvalidInput"
         ELSE IF Len(Entries) # PageCount THEN "WrongLength"
         ELSE IF {Entries[k] - 1 : k \in DOMAIN Entries} # ValidPages
         THEN "InvalidOrDuplicates"
         ELSE "Reordered"
    /\ ~Accepted => /\ applied.reorder_calls = <<>>
                    /\ session_state = applied.before

C9_Witness ==
  /\ applied.done
  /\ new_order_input = <<"2", ",", "1", ",", "2">>
  /\ PageCount = 3
  /\ applied.message = "InvalidOrDuplicates"
  /\ applied.reorder_calls = <<>>
  /\ session_state = [reordered_pdf |-> Some(StoredDocument)]

\* C10: every get_page_thumbnail call of a run passes a page index within
\* the page count of the document it is given.
C10_ThumbnailIndexInRange ==
  \A k \in DOMAIN view.thumbnail_calls :
    /\ view.thumbnail_calls[k].page_num >= 0
    /\ view.thumbnail_calls[k].page_num < view.thumbnail_calls[k].page_count

====
